---- MODULE Spec2Model ----
(***************************************************************************)
(* Model of the Corona-Tracker acquisition/orchestration module            *)
(* (coronatracker.py).  Text that the program inspects character by        *)
(* character (region labels, numeric cells, state and city names, CDC      *)
(* labels) is a sequence of one-character strings; text that is only       *)
(* concatenated or compared (paths, log messages) is a string.             *)
(***************************************************************************)
EXTENDS Integers, Sequences, FiniteSets, TLC

VARIABLES
    now,        \* datetime.now() taken when the module is loaded
    elapsed,    \* seconds of wall-clock time since the module was loaded
    dirs,       \* directories that exist on disk
    fs,         \* files on disk: path -> content
    log,        \* records handed to the logger, in order
    console,    \* lines printed to the console, in order
    stack,      \* call stack of main(): one frame per invocation, innermost last
    status,     \* "idle", "running", "returned" or the name of an unhandled exception
    interrupted,\* where a KeyboardInterrupt arrived ("no" while none has)
    us_frame,   \* the table the last get_jhu_data() returned
    cdc_frame,  \* the table the last get_cdc_data() returned
    jhu_sheet,  \* rows the spreadsheet served to the last get_jhu_data()
    cdc_page,   \* rows of the table the CDC page served to the last get_cdc_data()
    jhu_fetches,\* completed calls of get_jhu_data()
    cdc_fetches,\* completed calls of get_cdc_data()
    op,         \* the library function a client called last ("idle" before any)
    arg,        \* its arguments
    result      \* what it returned or raised

vars == <<now, elapsed, dirs, fs, log, console, stack, status, interrupted,
          us_frame, cdc_frame, jhu_sheet, cdc_page, jhu_fetches, cdc_fetches,
          op, arg, result>>

-----------------------------------------------------------------------------
(* Bounds of the model *)

\* longest sheet / page (rows) a fetch is served
MaxRows == 3
\* deepest recursion of main() that is explored
MaxDepth == 4

-----------------------------------------------------------------------------
(* Character-level helpers: Python str operations on sequences of characters *)

Digits == {"0", "1", "2", "3", "4", "5", "6", "7", "8", "9"}

DigitVal == [d \in Digits |->
    CASE d = "0" -> 0 [] d = "1" -> 1 [] d = "2" -> 2 [] d = "3" -> 3 [] d = "4" -> 4
      [] d = "5" -> 5 [] d = "6" -> 6 [] d = "7" -> 7 [] d = "8" -> 8 [] d = "9" -> 9]

\* ''.join(cs)
RECURSIVE Join(_)
Join(cs) == IF cs = <<>> THEN "" ELSE Head(cs) \o Join(Tail(cs))

\* s.replace(ch, '') for a one-character ch
RECURSIVE Remove(_, _)
Remove(cs, ch) ==
    IF cs = <<>> THEN <<>>
    ELSE IF Head(cs) = ch THEN Remove(Tail(cs), ch)
    ELSE <<Head(cs)>> \o Remove(Tail(cs), ch)

\* s.split(sep) for a one-character sep: always at least one part
RECURSIVE SplitAcc(_, _, _)
SplitAcc(cs, sep, cur) ==
    IF cs = <<>> THEN <<cur>>
    ELSE IF Head(cs) = sep THEN <<cur>> \o SplitAcc(Tail(cs), sep, <<>>)
    ELSE SplitAcc(Tail(cs), sep, Append(cur, Head(cs)))

Split(cs, sep) == SplitAcc(cs, sep, <<>>)

\* s.strip() of blanks
RECURSIVE LStrip(_)
LStrip(cs) == IF cs # <<>> /\ Head(cs) = " " THEN LStrip(Tail(cs)) ELSE cs

RECURSIVE RStrip(_)
RStrip(cs) ==
    IF cs # <<>> /\ cs[Len(cs)] = " " THEN RStrip(SubSeq(cs, 1, Len(cs) - 1)) ELSE cs

Strip(cs) == RStrip(LStrip(cs))

\* needle in hay (pandas str.contains on a pattern without regex metacharacters)
Contains(hay, needle) ==
    \E i \in 1..(Len(hay) + 1) :
        /\ i + Len(needle) - 1 <= Len(hay)
        /\ SubSeq(hay, i, i + Len(needle) - 1) = needle

RECURSIVE DigitsValue(_, _)
DigitsValue(cs, acc) ==
    IF cs = <<>> THEN acc ELSE DigitsValue(Tail(cs), 10 * acc + DigitVal[Head(cs)])

\* int(text): surrounding blanks are ignored, one sign is allowed, at least one
\* digit is required.  (Cells are drawn without '_' digit separators.)
int_digits(body, negative) ==
    IF body # <<>> /\ \A i \in 1..Len(body) : body[i] \in Digits
    THEN [ok |-> TRUE, value |-> IF negative THEN 0 - DigitsValue(body, 0) ELSE DigitsValue(body, 0)]
    ELSE [ok |-> FALSE, value |-> 0]

int_signed(s) ==
    IF s # <<>> /\ Head(s) \in {"+", "-"} THEN int_digits(Tail(s), Head(s) = "-")
    ELSE int_digits(s, FALSE)

int(text) == int_signed(Strip(text))

-----------------------------------------------------------------------------
(* Module-level constants of coronatracker.py *)

cwd == "/srv/tracker"
jhu_path == cwd \o "/jhu_data/"
cdc_path == cwd \o "/cdc_data/"
plot_path == cwd \o "/plots/"

TwoDigits(n) == Join(<<CHOOSE d \in Digits : DigitVal[d] = n \div 10,
                       CHOOSE d \in Digits : DigitVal[d] = n % 10>>)

\* now.strftime('%m_%d_%H_%M_%S.csv')
strftime(t) ==
    TwoDigits(t.month) \o "_" \o TwoDigits(t.day) \o "_" \o TwoDigits(t.hour) \o "_"
        \o TwoDigits(t.minute) \o "_" \o TwoDigits(t.second) \o ".csv"

\* computed once, from the load-time datetime
now_file_ext == strftime(now)


state_entries ==
    { <<"AL", <<"A", "l", "a", "b", "a", "m", "a">>>>,
      <<"AK", <<"A", "l", "a", "s", "k", "a">>>>,
      <<"AZ", <<"A", "r", "i", "z", "o", "n", "a">>>>,
      <<"CA", <<"C", "a", "l", "i", "f", "o", "r", "n", "i", "a">>>>,
      <<"CO", <<"C", "o", "l", "o", "r", "a", "d", "o">>>>,
      <<"CT", <<"C", "o", "n", "n", "e", "c", "t", "i", "c", "u", "t">>>>,
      <<"DE", <<"D", "e", "l", "a", "w", "a", "r", "e">>>>,
      <<"FL", <<"F", "l", "o", "r", "i", "d", "a">>>>,
      <<"GA", <<"G", "e", "o", "r", "g", "i", "a">>>>,
      <<"HI", <<"H", "a", "w", "a", "i", "i">>>>,
      <<"ID", <<"I", "d", "a", "h", "o">>>>,
      <<"IL", <<"I", "l", "l", "i", "n", "o", "i", "s">>>>,
      <<"IN", <<"I", "n", "d", "i", "a", "n", "a">>>>,
      <<"IA", <<"I", "o", "w", "a">>>>,
      <<"KS", <<"K", "a", "n", "s", "a", "s">>>>,
      <<"KY", <<"K", "e", "n", "t", "u", "c", "k", "y">>>>,
      <<"LA", <<"L", "o", "u", "i", "s", "i", "a", "n", "a">>>>,
      <<"ME", <<"M", "a", "i", "n", "e">>>>,
      <<"MD", <<"M", "a", "r", "y", "l", "a", "n", "d">>>>,
      <<"MA", <<"M", "a", "s", "s", "a", "c", "h", "u", "s", "e", "t", "t", "s">>>>,
      <<"MI", <<"M", "i", "c", "h", "i", "g", "a", "n">>>>,
      <<"MN", <<"M", "i", "n", "n", "e", "s", "o", "t", "a">>>>,
      <<"MS", <<"M", "i", "s", "s", "i", "s", "s", "i", "p", "p", "i">>>>,
      <<"MO", <<"M", "i", "s", "s", "o", "u", "r", "i">>>>,
      <<"MT", <<"M", "o", "n", "t", "a", "n", "a">>>>,
      <<"NE", <<"N", "e", "b", "r", "a", "s", "k", "a">>>>,
      <<"NV", <<"N", "e", "v", "a", "d", "a">>>>,
      <<"NH", <<"N", "e", "w", " ", "H", "a", "m", "p", "s", "h", "i", "r", "e">>>>,
      <<"NJ", <<"N", "e", "w", " ", "J", "e", "r", "s", "e", "y">>>>,
      <<"NM", <<"N", "e", "w", " ", "M", "e", "x", "i", "c", "o">>>>,
      <<"NY", <<"N", "e", "w", " ", "Y", "o", "r", "k">>>>,
      <<"NC", <<"N", "o", "r", "t", "h", " ", "C", "a", "r", "o", "l", "i", "n", "a">>>>,
      <<"ND", <<"N", "o", "r", "t", "h", " ", "D", "a", "k", "o", "t", "a">>>>,
      <<"OH", <<"O", "h", "i", "o">>>>,
      <<"OK", <<"O", "k", "l", "a", "h", "o", "m", "a">>>>,
      <<"OR", <<"O", "r", "e", "g", "o", "n">>>>,
      <<"PA", <<"P", "e", "n", "n", "s", "y", "l", "v", "a", "n", "i", "a">>>>,
      <<"RI", <<"R", "h", "o", "d", "e", " ", "I", "s", "l", "a", "n", "d">>>>,
      <<"SC", <<"S", "o", "u", "t", "h", " ", "C", "a", "r", "o", "l", "i", "n", "a">>>>,
      <<"SD", <<"S", "o", "u", "t", "h", " ", "D", "a", "k", "o", "t", "a">>>>,
      <<"TN", <<"T", "e", "n", "n", "e", "s", "s", "e", "e">>>>,
      <<"TX", <<"T", "e", "x", "a", "s">>>>,
      <<"UT", <<"U", "t", "a", "h">>>>,
      <<"VT", <<"V", "e", "r", "m", "o", "n", "t">>>>,
      <<"VA", <<"V", "i", "r", "g", "i", "n", "i", "a">>>>,
      <<"WA", <<"W", "a", "s", "h", "i", "n", "g", "t", "o", "n">>>>,
      <<"WV", <<"W", "e", "s", "t", " ", "V", "i", "r", "g", "i", "n", "i", "a">>>>,
      <<"WI", <<"W", "i", "s", "c", "o", "n", "s", "i", "n">>>>,
      <<"WY", <<"W", "y", "o", "m", "i", "n", "g">>>> }

state_map ==
    [code \in {e[1] : e \in state_entries} |->
        (CHOOSE e \in state_entries : e[1] = code)[2]]

-----------------------------------------------------------------------------
(* Tables and files *)

DataFrame(columns, rows) == [columns |-> columns, rows |-> rows]

jhu_columns == <<"state", "city", "cases", "deaths", "recoveries">>
state_columns == <<"state", "cases", "deaths", "recoveries">>
cdc_columns == <<"measure", "counts">>

Range(s) == {s[i] : i \in 1..Len(s)}

RECURSIVE Sum(_)
Sum(s) == IF s = <<>> THEN 0 ELSE Head(s) + Sum(Tail(s))

Info(msg) == [level |-> "INFO", msg |-> msg]
Warning(msg) == [level |-> "WARNING", msg |-> msg]
Critical(msg) == [level |-> "CRITICAL", msg |-> msg]

Returned(value) == [exc |-> "none", value |-> value]
Raised(exc) == [exc |-> exc, value |-> <<>>]

Csv(frame) == [kind |-> "csv", content |-> frame]
Png(figure) == [kind |-> "png", content |-> figure]

\* writing a file: an existing file of that path is replaced
Write(files, path, file) ==
    [p \in DOMAIN files \cup {path} |-> IF p = path THEN file ELSE files[p]]

\* frame.to_csv(path)
to_csv(files, path, frame) == Write(files, path, Csv(frame))

-----------------------------------------------------------------------------
(* get_jhu_data: the loop over the sheet's rows *)

\* One US row of the sheet, its cells converted: the five lists' next entry, or the
\* exception raised.  One try block covers the conversion of deaths and recoveries.
jhu_entry(cases, d, r, parts) ==
    IF ~cases.ok THEN Raised("ValueError")
    ELSE IF Len(parts) # 2 THEN Raised("ValueError")
    ELSE IF Join(Remove(parts[2], " ")) \notin DOMAIN state_map THEN Raised("KeyError")
    ELSE Returned([state      |-> state_map[Join(Remove(parts[2], " "))],
                   city       |-> parts[1],
                   cases      |-> cases.value,
                   deaths     |-> IF d.ok /\ r.ok THEN d.value ELSE 0,
                   recoveries |-> IF d.ok /\ r.ok THEN r.value ELSE 0])

jhu_row(row) ==
    jhu_entry(int(row.cases), int(row.deaths), int(row.recoveries), Split(row.region, ","))

RECURSIVE jhu_rows(_, _)
jhu_rows(rows, acc) ==
    IF rows = <<>> THEN Returned(DataFrame(jhu_columns, acc))
    ELSE IF Head(rows).country # "US" THEN jhu_rows(Tail(rows), acc)
    ELSE IF jhu_row(Head(rows)).exc # "none" THEN jhu_row(Head(rows))
    ELSE jhu_rows(Tail(rows), Append(acc, jhu_row(Head(rows)).value))

jhu_saving(frame) ==
    IF frame.rows # <<>>
    THEN <<Info("Successfully downloaded JHU data! Saving as jhu_" \o now_file_ext)>>
    ELSE <<>>

jhu_connect == <<Info("Attempting to connect to JHU sheet")>>

\* The rows read, the table is logged (when not empty) and written
jhu_save(built, files, directories) ==
    IF built.exc # "none"
    THEN [out |-> built, logged |-> jhu_connect, files |-> files]
    ELSE IF jhu_path \notin directories
    THEN [out    |-> Raised("OSError"),
          logged |-> jhu_connect \o jhu_saving(built.value),
          files  |-> files]
    ELSE [out    |-> built,
          logged |-> jhu_connect \o jhu_saving(built.value),
          files  |-> to_csv(files, jhu_path \o "jhu_" \o now_file_ext, built.value)]

\* What get_jhu_data() does when the spreadsheet serves `sheet`: the value returned
\* or the exception raised, the records logged and the files afterwards.
get_jhu_data(sheet, files, directories) == jhu_save(jhu_rows(sheet, <<>>), files, directories)

-----------------------------------------------------------------------------
(* get_data_for and make_state_frame *)

RegionRows(data, column, name) ==
    SelectSeq(data.rows, LAMBDA row : Contains(row[column], name))

ColumnOf(rows, var) == [i \in 1..Len(rows) |-> rows[i][var]]

\* (mutant) an unknown region is taken to be the default, 'state'
get_data_for_DefaultsToState(name, var, data, region) ==
    IF region = "city"
    THEN [out |-> Returned(ColumnOf(RegionRows(data, "city", name), var)), logged |-> <<>>]
    ELSE [out |-> Returned(ColumnOf(RegionRows(data, "state", name), var)), logged |-> <<>>]

get_data_for(name, var, data, region) ==
    IF region = "state"
    THEN [out |-> Returned(ColumnOf(RegionRows(data, "state", name), var)), logged |-> <<>>]
    ELSE IF region = "city"
    THEN [out |-> Returned(ColumnOf(RegionRows(data, "city", name), var)), logged |-> <<>>]
    ELSE [out    |-> Raised("ValueError"),
          logged |-> <<Warning("Received invalid region " \o region)>>]

state_append(state, deaths, cases, recoveries, acc) ==
    IF \E j \in 1..Len(acc) : acc[j].state = state
    THEN acc
    ELSE Append(acc, [state      |-> state,
                      cases      |-> Sum(cases),
                      deaths     |-> Sum(deaths),
                      recoveries |-> Sum(recoveries)])

RECURSIVE state_rows(_, _, _)
state_rows(i, data, acc) ==
    IF i > Len(data.rows) THEN acc
    ELSE state_rows(i + 1, data,
                    state_append(data.rows[i].state,
                                 get_data_for(data.rows[i].state, "deaths", data, "state").out.value,
                                 get_data_for(data.rows[i].state, "cases", data, "state").out.value,
                                 get_data_for(data.rows[i].state, "recoveries", data, "state").out.value,
                                 acc))

make_state_frame(data) == DataFrame(state_columns, state_rows(1, data, <<>>))

-----------------------------------------------------------------------------
(* get_cdc_data *)

Total == <<"T", "o", "t", "a", "l">>

\* (mutant) only the '§' is removed
measure_name_of_KeepsColon(th) == Remove(th, "§")

measure_name_of(th) == Remove(Remove(th, "§"), ":")

RECURSIVE cdc_rows(_, _)
cdc_rows(rows, acc) ==
    IF rows = <<>> THEN Returned(DataFrame(cdc_columns, acc))
    ELSE IF ~int(Head(rows).td).ok THEN Raised("ValueError")
    ELSE IF measure_name_of(Head(rows).th) # Total
    THEN cdc_rows(Tail(rows), Append(acc, [measure |-> measure_name_of(Head(rows).th),
                                           counts  |-> int(Head(rows).td).value]))
    ELSE cdc_rows(Tail(rows), acc)

cdc_saving(frame) ==
    IF frame.rows # <<>>
    THEN <<Info("Successfully downloaded CDC data! Saving as CDC_" \o now_file_ext)>>
    ELSE <<>>

cdc_save(built, files, directories) ==
    IF built.exc # "none"
    THEN [out |-> built, logged |-> <<>>, files |-> files]
    ELSE IF cdc_path \notin directories
    THEN [out |-> Raised("OSError"), logged |-> cdc_saving(built.value), files |-> files]
    ELSE [out    |-> built,
          logged |-> cdc_saving(built.value),
          files  |-> to_csv(files, cdc_path \o "cdc_" \o now_file_ext, built.value)]

get_cdc_data(page, files, directories) == cdc_save(cdc_rows(page, <<>>), files, directories)

-----------------------------------------------------------------------------
(* is_new_data *)

\* pd.read_csv of a file to_csv wrote: the row index comes back as a first column
read_csv(file) == DataFrame(<<"Unnamed: 0">> \o file.content.columns, file.content.rows)

\* `if recent_data[column] != prev_data[column]:` on the first column.  Indexing a
\* table by a column it lacks raises KeyError; the comparison of two columns is a
\* column of booleans (or fails on columns of different length), and taking the
\* truth value of a column raises ValueError.
first_comparison(recent_data, prev_data) ==
    IF "state" \notin Range(recent_data.columns) \/ "state" \notin Range(prev_data.columns)
    THEN Raised("KeyError")
    ELSE Raised("ValueError")

\* a relative path is resolved against the working directory
is_new_data(recent_data, source, files) ==
    IF cwd \o "/" \o source \o now_file_ext \notin DOMAIN files
    THEN Raised("FileNotFoundError")
    ELSE first_comparison(recent_data, read_csv(files[cwd \o "/" \o source \o now_file_ext]))

-----------------------------------------------------------------------------
(* The environment: what the remote sources serve, and when the module loads *)

SeqsUpTo(S, n) == UNION {[1..k -> S] : k \in 0..n}

SheetRow(region, country, cases, deaths, recoveries) ==
    [region |-> region, country |-> country, cases |-> cases,
     deaths |-> deaths, recoveries |-> recoveries]

Richmond == <<"R", "i", "c", "h", "m", "o", "n", "d", ",", " ", "V", "A">>
Norfolk == <<"N", "o", "r", "f", "o", "l", "k", ",", "V", "A">>
Wheeling == <<"W", "h", "e", "e", "l", "i", "n", "g", ",", " ", "W", "V">>
LittleRock == <<"L", "i", "t", "t", "l", "e", " ", "R", "o", "c", "k", ",", " ", "A", "R">>
Hubei == <<"H", "u", "b", "e", "i">>

\* Rows of the spreadsheet (columns 0, 1, 3, 4, 5): US rows with numeric, blank and
\* partly blank deaths/recoveries cells, a row of another country, a label whose
\* state code is Arkansas's.
GoodSheetRows ==
    { SheetRow(Richmond, "US", <<"2">>, <<"1">>, <<>>),
      SheetRow(Norfolk, "US", <<"1", "0">>, <<"1">>, <<"1">>),
      SheetRow(Wheeling, "US", <<"3">>, <<>>, <<"2">>) }

SheetRows ==
    GoodSheetRows \cup
    { SheetRow(Hubei, "Mainland China", <<"9">>, <<"5">>, <<"1">>),
      SheetRow(LittleRock, "US", <<"1">>, <<>>, <<>>) }

Sheets == SeqsUpTo(SheetRows, MaxRows)

\* Sheets served during a run of main(): regions are entered once they have cases,
\* so each has a US row; one of them carries the Arkansas label.
RunSheets ==
    { <<SheetRow(Richmond, "US", <<"2">>, <<"1">>, <<>>)>>,
      <<SheetRow(Richmond, "US", <<"2">>, <<"1">>, <<>>),
        SheetRow(Wheeling, "US", <<"3">>, <<>>, <<"2">>)>>,
      <<SheetRow(LittleRock, "US", <<"1">>, <<>>, <<>>)>> }

PageRow(th, td) == [th |-> th, td |-> td]

\* Rows (<th> text, <td> text) of the CDC page's first table
PageRows ==
    { PageRow(Total, <<"1", "5">>),
      PageRow(<<"T", "o", "t", "a", "l", ":">>, <<"1", "5">>),
      PageRow(<<"T", "r", "a", "v", "e", "l", "-", "r", "e", "l", "a", "t", "e", "d">>, <<"1", "2">>),
      PageRow(<<"C", "l", "o", "s", "e", " ", "c", "o", "n", "t", "a", "c", "t", "§">>, <<" ", "3">>),
      PageRow(<<"P", "e", "n", "d", "i", "n", "g", ":">>, <<"n", "/", "a">>) }

Pages == SeqsUpTo(PageRows, MaxRows)

RunPages ==
    { <<PageRow(<<"T", "r", "a", "v", "e", "l", "-", "r", "e", "l", "a", "t", "e", "d">>, <<"1", "2">>),
        PageRow(Total, <<"1", "5">>)>>,
      <<PageRow(<<"P", "e", "n", "d", "i", "n", "g", ":">>, <<"n", "/", "a">>)>> }

LoadTimes ==
    { [month |-> 3, day |-> 9, hour |-> 8, minute |-> 5, second |-> 30],
      [month |-> 11, day |-> 2, hour |-> 23, minute |-> 59, second |-> 7] }

AllDirs == {jhu_path, cdc_path, plot_path}

NoFrame == DataFrame(<<>>, <<>>)

InitEnv ==
    /\ now \in LoadTimes
    /\ elapsed = 0
    /\ dirs \in {{}, AllDirs}
    /\ fs = <<>>
    /\ log = <<>>
    /\ console = <<>>
    /\ interrupted = "no"
    /\ us_frame = NoFrame
    /\ cdc_frame = NoFrame
    /\ jhu_sheet = <<>>
    /\ cdc_page = <<>>
    /\ jhu_fetches = 0
    /\ cdc_fetches = 0
    /\ arg = <<>>
    /\ result = Returned(<<>>)

-----------------------------------------------------------------------------
(* main(): one frame of the stack per invocation.  A frame's pc is the place  *)
(* its invocation has reached: "start" (line 227), "jhu" (255), "cdc" (256),   *)
(* "plot" (258), "try" (290), "sleep" (293), "call" (294, waiting for the      *)
(* invocation it made), "break" (295), "end" (past the try statement).         *)

SleepSeconds == 60

Frame(first_run, pc) == [first_run |-> first_run, pc |-> pc]

Top == stack[Len(stack)]

Goto(pc) == [stack EXCEPT ![Len(stack)].pc = pc]

Init ==
    /\ InitEnv
    /\ stack = <<Frame(TRUE, "start")>>
    /\ status = "running"
    /\ op = "main"

At(pc) == status = "running" /\ Top.pc = pc

\* An exception no frame handles (every frame's handler is for KeyboardInterrupt
\* only) ends the process.
Unhandled(exc) ==
    /\ status' = exc
    /\ stack' = <<>>

Banner == <<"2019-nCoV Tracker (U.S)", "To break this program out of its loop, press Ctrl+C">>

CouldNotCreate(failed) ==
    (IF cdc_path \in failed THEN <<Critical("Could not create CDC data directory")>> ELSE <<>>)
    \o (IF jhu_path \in failed THEN <<Critical("Could not create JHU data directory")>> ELSE <<>>)
    \o (IF plot_path \in failed THEN <<Critical("Could not create plots directory")>> ELSE <<>>)

\* lines 227-253: on the first run each missing directory is made (or the failure
\* is logged) and the banner is printed
Start ==
    /\ At("start")
    /\ IF Top.first_run
       THEN \E made \in SUBSET (AllDirs \ dirs) :
               /\ dirs' = dirs \cup made
               /\ log' = log \o CouldNotCreate((AllDirs \ dirs) \ made)
                             \o <<Info("Starting tracker loop")>>
               /\ console' = console \o Banner
       ELSE /\ dirs' = dirs
            /\ log' = Append(log, Info("Starting tracker loop"))
            /\ console' = console
    /\ stack' = Goto("jhu")
    /\ UNCHANGED <<now, elapsed, fs, status, interrupted, us_frame, cdc_frame, jhu_sheet,
                   cdc_page, jhu_fetches, cdc_fetches, op, arg, result>>

FetchedThen(r, next) ==
    /\ log' = log \o r.logged
    /\ fs' = r.files
    /\ IF r.out.exc = "none"
       THEN stack' = Goto(next) /\ status' = status
       ELSE Unhandled(r.out.exc)

\* line 255
FetchJhu ==
    /\ At("jhu")
    /\ \E sheet \in RunSheets :
        /\ jhu_sheet' = sheet
        /\ FetchedThen(get_jhu_data(sheet, fs, dirs), "cdc")
        /\ us_frame' = IF status' = "running" THEN jhu_rows(sheet, <<>>).value ELSE us_frame
    /\ jhu_fetches' = IF status' = "running" THEN jhu_fetches + 1 ELSE jhu_fetches
    /\ UNCHANGED <<now, elapsed, dirs, console, interrupted, cdc_frame, cdc_page, cdc_fetches,
                   op, arg, result>>

\* line 256
FetchCdc ==
    /\ At("cdc")
    /\ \E page \in RunPages :
        /\ cdc_page' = page
        /\ FetchedThen(get_cdc_data(page, fs, dirs), "plot")
        /\ cdc_frame' = IF status' = "running" THEN cdc_rows(page, <<>>).value ELSE cdc_frame
    /\ cdc_fetches' = IF status' = "running" THEN cdc_fetches + 1 ELSE cdc_fetches
    /\ UNCHANGED <<now, elapsed, dirs, console, interrupted, us_frame, jhu_sheet, jhu_fetches,
                   op, arg, result>>

state_figure == [cdc |-> cdc_frame.rows, jhu |-> make_state_frame(us_frame).rows]
city_figure == [jhu |-> us_frame.rows]

\* lines 258-287: both figures are drawn and saved under fixed names
Plot ==
    /\ At("plot")
    /\ console' = Append(console, "Displaying plot!")
    /\ IF plot_path \in dirs
       THEN /\ fs' = Write(Write(fs, plot_path \o "state_sum.png", Png(state_figure)),
                           plot_path \o "city_sum.png", Png(city_figure))
            /\ stack' = Goto("try")
            /\ status' = status
       ELSE /\ fs' = fs
            /\ Unhandled("FileNotFoundError")
    /\ UNCHANGED <<now, elapsed, dirs, log, interrupted, us_frame, cdc_frame, jhu_sheet,
                   cdc_page, jhu_fetches, cdc_fetches, op, arg, result>>

\* lines 290-293: the try statement and its loop are entered, the sleep begins
EnterSleep ==
    /\ At("try")
    /\ console' = Append(console, "Sleeping now for one minute! Will check for new data afterwards...")
    /\ stack' = Goto("sleep")
    /\ UNCHANGED <<now, elapsed, dirs, fs, log, status, interrupted, us_frame, cdc_frame,
                   jhu_sheet, cdc_page, jhu_fetches, cdc_fetches, op, arg, result>>

\* (mutant) the sleep ends and the loop is left without the recursive call
WakeUp_NoCall ==
    /\ At("sleep")
    /\ elapsed' = elapsed + SleepSeconds
    /\ stack' = Goto("break")
    /\ UNCHANGED <<now, dirs, fs, log, console, status, interrupted, us_frame, cdc_frame,
                   jhu_sheet, cdc_page, jhu_fetches, cdc_fetches, op, arg, result>>

\* lines 293-294: the sleep ends and main(first_run=False) is called
WakeUp ==
    /\ At("sleep")
    /\ Len(stack) < MaxDepth
    /\ elapsed' = elapsed + SleepSeconds
    /\ stack' = Append(Goto("call"), Frame(FALSE, "start"))
    /\ UNCHANGED <<now, dirs, fs, log, console, status, interrupted, us_frame, cdc_frame,
                   jhu_sheet, cdc_page, jhu_fetches, cdc_fetches, op, arg, result>>

\* line 295
Break ==
    /\ At("break")
    /\ stack' = Goto("end")
    /\ UNCHANGED <<now, elapsed, dirs, fs, log, console, status, interrupted, us_frame,
                   cdc_frame, jhu_sheet, cdc_page, jhu_fetches, cdc_fetches, op, arg, result>>

\* the invocation returns: to its caller's line 294, or out of the program
Return ==
    /\ At("end")
    /\ IF Len(stack) = 1
       THEN stack' = <<>> /\ status' = "returned"
       ELSE /\ stack' = [SubSeq(stack, 1, Len(stack) - 1) EXCEPT ![Len(stack) - 1].pc = "break"]
            /\ status' = status
    /\ UNCHANGED <<now, elapsed, dirs, fs, log, console, interrupted, us_frame, cdc_frame,
                   jhu_sheet, cdc_page, jhu_fetches, cdc_fetches, op, arg, result>>

\* (mutant) the sleep is outside the try statement
InTry_SleepOutside == {"try", "break"}

InTry == {"try", "sleep", "break"}

\* lines 296-297: the frame `handler` catches the interrupt; the frames above it are gone
Caught(handler) ==
    /\ stack' = [SubSeq(stack, 1, handler) EXCEPT ![handler].pc = "end"]
    /\ console' = Append(console, "Exiting...")
    /\ status' = status

\* A KeyboardInterrupt arrives (one per run is followed).  Inside its own try
\* statement the innermost invocation catches it; elsewhere it leaves that invocation
\* and is caught by the caller, whose call at line 294 is inside the caller's try;
\* the first invocation has no caller.
Interrupt ==
    /\ status = "running"
    /\ interrupted = "no"
    /\ interrupted' = Top.pc
    /\ IF Top.pc \in InTry THEN Caught(Len(stack))
       ELSE IF Len(stack) > 1 THEN Caught(Len(stack) - 1)
       ELSE console' = console /\ Unhandled("KeyboardInterrupt")
    /\ UNCHANGED <<now, elapsed, dirs, fs, log, us_frame, cdc_frame, jhu_sheet, cdc_page,
                   jhu_fetches, cdc_fetches, op, arg, result>>

Run ==
    \/ Start
    \/ FetchJhu
    \/ FetchCdc
    \/ Plot
    \/ EnterSleep
    \/ WakeUp
    \/ Break
    \/ Return

Next == Run \/ Interrupt

Spec == Init /\ [][Next]_vars

\* the interpreter keeps executing the program while it can
FairSpec == Spec /\ WF_vars(Run)

-----------------------------------------------------------------------------
(* A client of the module (as dataproccessor.py is) calling its functions *)

\* longest log a client session is followed to
MaxLog == 4

Names == { <<"V", "i", "r", "g", "i", "n", "i", "a">>, <<"R", "i", "c", "h">> }
Vars == {"cases", "deaths", "recoveries"}
Regions == {"state", "city", "county"}
Sources == {"jhu", "cdc", "jhu_data/jhu_"}

LibInit ==
    /\ InitEnv
    /\ stack = <<>>
    /\ status = "idle"
    /\ op = "idle"

LibUnchanged == UNCHANGED <<now, elapsed, dirs, console, stack, status, interrupted>>

Fetched(name, r) ==
    /\ op' = name
    /\ arg' = <<>>
    /\ result' = r.out
    /\ log' = log \o r.logged
    /\ fs' = r.files

CallGetJhuData ==
    /\ op = "idle"
    /\ \E sheet \in Sheets :
        /\ jhu_sheet' = sheet
        /\ Fetched("get_jhu_data", get_jhu_data(sheet, fs, dirs))
    /\ us_frame' = IF result'.exc = "none" THEN result'.value ELSE us_frame
    /\ jhu_fetches' = IF result'.exc = "none" THEN jhu_fetches + 1 ELSE jhu_fetches
    /\ UNCHANGED <<cdc_frame, cdc_page, cdc_fetches>>
    /\ LibUnchanged

CallGetCdcData ==
    /\ op = "idle"
    /\ \E page \in Pages :
        /\ cdc_page' = page
        /\ Fetched("get_cdc_data", get_cdc_data(page, fs, dirs))
    /\ cdc_frame' = IF result'.exc = "none" THEN result'.value ELSE cdc_frame
    /\ cdc_fetches' = IF result'.exc = "none" THEN cdc_fetches + 1 ELSE cdc_fetches
    /\ UNCHANGED <<us_frame, jhu_sheet, jhu_fetches>>
    /\ LibUnchanged

Selected(r) ==
    /\ result' = r.out
    /\ log' = log \o r.logged

CallGetDataFor ==
    /\ us_frame # NoFrame
    /\ Len(log) < MaxLog
    /\ \E name \in Names, var \in Vars, region \in Regions :
        /\ op' = "get_data_for"
        /\ arg' = [name |-> name, var |-> var, data |-> us_frame, region |-> region]
        /\ Selected(get_data_for(name, var, us_frame, region))
    /\ UNCHANGED <<fs, us_frame, cdc_frame, jhu_sheet, cdc_page, jhu_fetches, cdc_fetches>>
    /\ LibUnchanged

CallMakeStateFrame ==
    /\ us_frame # NoFrame
    /\ op' = "make_state_frame"
    /\ arg' = [data |-> us_frame]
    /\ result' = Returned(make_state_frame(us_frame))
    /\ UNCHANGED <<fs, log, us_frame, cdc_frame, jhu_sheet, cdc_page, jhu_fetches, cdc_fetches>>
    /\ LibUnchanged

CallIsNewData ==
    /\ \E recent_data \in {us_frame, cdc_frame} \ {NoFrame}, source \in Sources :
        /\ op' = "is_new_data"
        /\ arg' = [recent_data |-> recent_data, source |-> source]
        /\ result' = is_new_data(recent_data, source, fs)
    /\ UNCHANGED <<fs, log, us_frame, cdc_frame, jhu_sheet, cdc_page, jhu_fetches, cdc_fetches>>
    /\ LibUnchanged

LibNext ==
    \/ CallGetJhuData
    \/ CallGetCdcData
    \/ CallGetDataFor
    \/ CallMakeStateFrame
    \/ CallIsNewData

LibSpec == LibInit /\ [][LibNext]_vars

-----------------------------------------------------------------------------
(* Claims about main() *)

Running == status = "running"

\* C1, as stated: a run that is never interrupted and in which nothing fails makes
\* exactly two fetch cycles and then exits.
C1_TwoCyclesThenExit ==
    (interrupted = "no" /\ status \in {"running", "returned"}) =>
        /\ jhu_fetches <= 2
        /\ cdc_fetches <= 2
        /\ status = "returned" => jhu_fetches = 2

\* C1, amended: while no interrupt has arrived and nothing has failed, main() has not
\* returned and no invocation has reached its break; every invocation but the
\* innermost is waiting in its recursive call, and the number of fetch cycles made is
\* the depth of the recursion (one less while the innermost has still to fetch).
C1_OneCyclePerNestingLevel ==
    interrupted = "no" =>
        /\ status # "returned"
        /\ Running =>
            /\ \A i \in 1..Len(stack) : stack[i].pc \notin {"break", "end"}
            /\ \A i \in 1..(Len(stack) - 1) : stack[i].pc = "call"
            /\ jhu_fetches = IF Top.pc \in {"start", "jhu"} THEN Len(stack) - 1 ELSE Len(stack)
            /\ cdc_fetches = IF Top.pc \in {"start", "jhu", "cdc"} THEN Len(stack) - 1 ELSE Len(stack)

C1_ThirdCycle ==
    /\ interrupted = "no"
    /\ Running
    /\ Len(stack) = 3
    /\ jhu_fetches = 3
    /\ cdc_fetches = 3
    /\ elapsed = 2 * SleepSeconds

SnapshotFiles(columns) ==
    {p \in DOMAIN fs : fs[p].kind = "csv" /\ fs[p].content.columns = columns}

\* C2: every fetch writes a snapshot file no earlier fetch of that source has written,
\* so each source has as many snapshot files as it has completed fetches.
C2_OneSnapshotPerFetch ==
    /\ Cardinality(SnapshotFiles(jhu_columns)) = jhu_fetches
    /\ Cardinality(SnapshotFiles(cdc_columns)) = cdc_fetches

Exits == SelectSeq(console, LAMBDA line : line = "Exiting...")

\* C3: an interrupt that arrives during the sleep of any invocation is caught: the
\* exit message is printed (once, and nothing is printed after it), from the interrupt
\* on nothing is fetched and no file is written, the interrupt never ends the program
\* as an unhandled exception, and main() returns through every enclosing invocation.
C3_InterruptDuringSleepExitsCleanly ==
    /\ [](interrupted = "sleep" =>
            /\ status \in {"running", "returned"}
            /\ Len(Exits) = 1
            /\ console[Len(console)] = "Exiting...")
    /\ [][interrupted' = "sleep" =>
            /\ jhu_fetches' = jhu_fetches
            /\ cdc_fetches' = cdc_fetches
            /\ fs' = fs
            /\ Len(stack') <= Len(stack)]_vars
    /\ (interrupted = "sleep") ~> (status = "returned")

C3_NestedSleepInterrupted ==
    /\ interrupted = "sleep"
    /\ status = "returned"
    /\ jhu_fetches = 3
    /\ Len(Exits) = 1

-----------------------------------------------------------------------------
(* Claims about the functions *)

StatesOf(rows) == {rows[i].state : i \in 1..Len(rows)}

FirstRowOf(rows, s) == CHOOSE i \in 1..Len(rows) :
    rows[i].state = s /\ \A j \in 1..(i - 1) : rows[j].state # s

SumOver(rows, s, var) == Sum(ColumnOf(SelectSeq(rows, LAMBDA row : row.state = s), var))

\* C4: make_state_frame yields one row per distinct state of its input, in order of
\* first occurrence, holding the sums of cases, deaths and recoveries over exactly the
\* input rows of that state.
C4_SumsOverOwnRowsOnly ==
    op = "make_state_frame" =>
        /\ result.exc = "none"
        /\ Len(result.value.rows) = Cardinality(StatesOf(arg.data.rows))
        /\ StatesOf(result.value.rows) = StatesOf(arg.data.rows)
        /\ \A k \in 1..Len(result.value.rows) :
            /\ \A j \in 1..(k - 1) :
                FirstRowOf(arg.data.rows, result.value.rows[j].state)
                    < FirstRowOf(arg.data.rows, result.value.rows[k].state)
            /\ \A var \in Vars :
                result.value.rows[k][var]
                    = SumOver(arg.data.rows, result.value.rows[k].state, var)

StateNames == {state_map[code] : code \in DOMAIN state_map}

\* C5: for a table whose state names are values of state_map, make_state_frame yields
\* as many rows as the table has distinct states, and its cases add up to the cases of
\* the table.
C5_CasesTotalPreserved ==
    (op = "make_state_frame" /\ StatesOf(arg.data.rows) \subseteq StateNames) =>
        /\ Len(result.value.rows) = Cardinality(StatesOf(arg.data.rows))
        /\ Sum(ColumnOf(result.value.rows, "cases")) = Sum(ColumnOf(arg.data.rows, "cases"))

USRowsOf(sheet) == SelectSeq(sheet, LAMBDA row : row.country = "US")

OrZero(cell) == IF int(cell).ok THEN int(cell).value ELSE 0

\* C6: in every row get_jhu_data returns, deaths is the integer of the deaths cell
\* (0 when it is no integer) and recoveries the integer of the recoveries cell (0 when
\* it is no integer), each whatever the other cell holds.
C6_EachCellOnItsOwn ==
    (op = "get_jhu_data" /\ result.exc = "none") =>
        /\ Len(result.value.rows) = Len(USRowsOf(jhu_sheet))
        /\ \A i \in 1..Len(result.value.rows) :
            /\ result.value.rows[i].deaths = OrZero(USRowsOf(jhu_sheet)[i].deaths)
            /\ result.value.rows[i].recoveries = OrZero(USRowsOf(jhu_sheet)[i].recoveries)

\* C7: a call of get_data_for with a region that is neither 'state' nor 'city' raises
\* ValueError and returns nothing, whatever the name, the variable and the table; the
\* warning is in the log when it raises, and the table is as it was.
C7_UnknownRegionRaises ==
    [][(op' = "get_data_for" /\ arg'.region \notin {"state", "city"}) =>
            /\ result'.exc = "ValueError"
            /\ result'.value = <<>>
            /\ log' = Append(log, Warning("Received invalid region " \o arg'.region))
            /\ arg'.data = us_frame
            /\ us_frame' = us_frame]_vars

C7_CountyAsked ==
    /\ op = "get_data_for"
    /\ arg.region = "county"
    /\ Len(arg.data.rows) >= 2
    /\ result.exc = "ValueError"
    /\ Len(log) = MaxLog

LabelsOf(page) == [i \in 1..Len(page) |-> page[i].th]

\* C8, as stated: exactly the rows whose label is "Total" are left out.
C8_ExactlyTotalLeftOut ==
    (op = "get_cdc_data" /\ result.exc = "none") =>
        Len(result.value.rows)
            = Len(SelectSeq(cdc_page, LAMBDA row : row.th # Total))

Unmarked(th) == SelectSeq(th, LAMBDA c : c \notin {"§", ":"})

KeptOf(page) == SelectSeq(page, LAMBDA row : Unmarked(row.th) # Total)

\* C8, amended: when get_cdc_data returns, it has left out every row whose label is
\* "Total" once '§' and ':' are removed from it (so "Total:" too), wherever it stands,
\* and holds every other row once, in page order, with the label without '§' and ':'
\* and the integer of the data cell.
C8_TotalAfterStrippingLeftOut ==
    (op = "get_cdc_data" /\ result.exc = "none") =>
        /\ Len(result.value.rows) = Len(KeptOf(cdc_page))
        /\ \A i \in 1..Len(result.value.rows) :
            /\ result.value.rows[i].measure = Unmarked(KeptOf(cdc_page)[i].th)
            /\ int(KeptOf(cdc_page)[i].td).ok
            /\ result.value.rows[i].counts = int(KeptOf(cdc_page)[i].td).value

C8_TotalsAmongOthers ==
    /\ op = "get_cdc_data"
    /\ result.exc = "none"
    /\ Len(cdc_page) = 3
    /\ cdc_page[1].th = Total
    /\ cdc_page[2].th = <<"T", "o", "t", "a", "l", ":">>
    /\ Len(result.value.rows) = 1
    /\ result.value.rows[1].measure = <<"C", "l", "o", "s", "e", " ", "c", "o", "n", "t", "a", "c", "t">>
    /\ result.value.rows[1].counts = 3

Differs(recent_data, snapshot) ==
    \E column \in Range(state_columns) :
        ColumnOf(recent_data.rows, column) # ColumnOf(snapshot.rows, column)

\* C9: called after a fetch of the source has written its snapshot, is_new_data loads
\* that snapshot and returns whether any value of state, cases, deaths or recoveries
\* differs between the table it is given and the snapshot.
C9_ComparesWithSavedSnapshot ==
    (op = "is_new_data" /\ arg.source = "jhu" /\ jhu_fetches > 0) =>
        /\ result.exc = "none"
        /\ result.value
            = Differs(arg.recent_data, fs[jhu_path \o "jhu_" \o now_file_ext].content)

USStateCodes ==
    {"AL", "AK", "AZ", "AR", "CA", "CO", "CT", "DE", "FL", "GA", "HI", "ID", "IL", "IN", "IA",
     "KS", "KY", "LA", "ME", "MD", "MA", "MI", "MN", "MS", "MO", "MT", "NE", "NV", "NH", "NJ",
     "NM", "NY", "NC", "ND", "OH", "OK", "OR", "PA", "RI", "SC", "SD", "TN", "TX", "UT", "VT",
     "VA", "WA", "WV", "WI", "WY"}

CarriesStateCode(row) ==
    /\ Len(Split(row.region, ",")) = 2
    /\ Join(Remove(Split(row.region, ",")[2], " ")) \in USStateCodes

\* C10: state_map has an entry for the code of each of the 50 states, so a sheet whose
\* region labels all carry the code of a U.S. state is read without a lookup error.
C10_EveryStateCodeResolved ==
    (op = "get_jhu_data" /\ \A i \in 1..Len(jhu_sheet) :
                                jhu_sheet[i].country = "US" => CarriesStateCode(jhu_sheet[i])) =>
        result.exc # "KeyError"
====
